---- MODULE Spec2Model ----
(***************************************************************************)
(* Inspext-AI: the OCR batch pipeline of src/src/App.tsx (onDrop) and      *)
(* src/src/utils/ocr.ts (getScheduler, processImage).                      *)
(*                                                                         *)
(* The program is single-threaded JavaScript: a callback runs to its next  *)
(* await without interruption.  Each action below is one such run: the     *)
(* synchronous start of onDrop and of each map callback, and every         *)
(* continuation after an await (a promise settling).  The tesseract.js     *)
(* scheduler the code calls (createScheduler, addWorker, addJob) is        *)
(* modelled by what those calls do to the scheduler object.                *)
(***************************************************************************)
EXTENDS Integers, Sequences, FiniteSets, TLC

\* ---------------------------------------------------------------- bounds
\* Files dropped over the whole run, summed over all batches.
MaxFiles == 5

\* ocr.ts:13
WORKER_COUNT == 3

\* ------------------------------------------------------------ input data
\* The images a user can drop: a display name and the image content.
FileSet ==
    { [name |-> "a.jpg", image |-> "imgA"],
      [name |-> "b.jpg", image |-> "imgB"] }

\* The text the recognition engine reads from an image (external capability).
OcrText(image) == <<"text of", image>>

NoText == <<>>

Jobs == 1..MaxFiles

\* ------------------------------------------------------------- variables
VARIABLES
    processing,      \* App.tsx:9   useState(false)
    totalFiles,      \* App.tsx:10
    completedCount,  \* App.tsx:11
    acceptedFiles,   \* the argument of the running onDrop (a sequence of files)
    onDropPc,        \* "idle" | "mapping" | "awaitAll": position of onDrop
    mapIndex,        \* next element acceptedFiles.map will call its callback on
    filesLeft,       \* files that may still be dropped (bounds the run)
    scheduler,       \* ocr.ts:12: 0 is null, n > 0 the n-th object createScheduler returned
    pool,            \* the state of the scheduler object
    engines,         \* createWorker calls so far: "creating" | "ready" | "failed"
    pc,              \* per file of the batch: position of its map callback
    awaits,          \* per file: the workerInitializers its getScheduler call awaits
    url,             \* per file: "none" | "live" | "revoked" (its object URL)
    jobErr,          \* per file: the error its processImage call carries
    text,            \* per file: the text its addJob promise resolved with
    value,           \* per file: the record its processImage promise resolved with
    settled,         \* per file: how many times its processImage promise settled
    results,         \* per file: what its map callback's promise resolved with
    batchResults,    \* App.tsx:30: results, once Promise.all has resolved
    consoleErr,      \* per file: what App.tsx:24 logged
    exportCalls,     \* exportToCSV calls made by the running/last onDrop
    exported,        \* the argument of the last exportToCSV call
    extract,         \* one call of the field extraction of processImage (ocr.ts:38-98)
    csv              \* one call of exportToCSV (csv.ts:4-24)

vars == << processing, totalFiles, completedCount, acceptedFiles, onDropPc,
           mapIndex, filesLeft, scheduler, pool, engines, pc, awaits, url,
           jobErr, text, value, settled, results, batchResults, consoleErr,
           exportCalls, exported, extract, csv >>

appVars == << processing, totalFiles, completedCount, acceptedFiles, onDropPc,
              mapIndex, filesLeft, batchResults, exportCalls, exported, extract, csv >>

K == Len(acceptedFiles)

\* --------------------------------------------------- the scheduler object
\* createScheduler(): no workers, nothing running, empty job queue.
\* active is the set of recognitions an engine is executing right now.
EmptyPool ==
    [ workers |-> <<>>, runningWorkers |-> {}, jobQueue |-> <<>>, active |-> {} ]

NumWorkers(p) == Len(p.workers)

IdleWorkers(p) ==
    { n \in 1..Len(p.workers) : p.workers[n] \notin p.runningWorkers }

\* dequeue(): hand the head of the queue to the first worker not running.
Dequeue(p) ==
    IF p.jobQueue # <<>> /\ IdleWorkers(p) # {}
    THEN LET n == CHOOSE n \in IdleWorkers(p) : \A m \in IdleWorkers(p) : n <= m
             w == p.workers[n]
             j == Head(p.jobQueue)
         IN  [ p EXCEPT !.jobQueue = Tail(@),
                        !.runningWorkers = @ \cup {w},
                        !.active = @ \cup {[job |-> j.job, url |-> j.url, worker |-> w]} ]
    ELSE p

\* scheduler.addWorker(worker)
AddWorker(p, w) == Dequeue([p EXCEPT !.workers = Append(@, w)])

\* scheduler.addJob throws when the scheduler holds no worker.
AddJobThrows(p) == NumWorkers(p) = 0

\* scheduler.addJob("recognize", imageUrl) with at least one worker.
AddJob(p, j) == Dequeue([p EXCEPT !.jobQueue = Append(@, j)])

\* The job on worker a.worker ended: finally { delete runningWorkers; dequeue() }.
FinishJob(p, a) ==
    Dequeue([p EXCEPT !.runningWorkers = @ \ {a.worker}, !.active = @ \ {a}])

\* ------------------------------------------------------------ the records
Null == [kind |-> "null", imageName |-> "", originalText |-> NoText, error |-> "none"]

\* A record that takes its name from the last file of the batch.
ExtractedDataLastName(file, t) ==
    [kind |-> "record", imageName |-> acceptedFiles[Len(acceptedFiles)].name,
     originalText |-> t, error |-> "none"]

\* ocr.ts:91-98 (the extracted fields are functions of originalText)
ExtractedData(file, t) ==
    [kind |-> "record", imageName |-> file.name, originalText |-> t, error |-> "none"]

NoLog == [name |-> "", error |-> "none"]

\* No extraction and no export is being looked at on its own.
NoExtract == [phase |-> "idle"]

NoCsv == [phase |-> "idle"]

\* ---------------------------------------------------------------- Init
Init ==
    /\ processing = FALSE
    /\ totalFiles = 0
    /\ completedCount = 0
    /\ acceptedFiles = <<>>
    /\ onDropPc = "idle"
    /\ mapIndex = 0
    /\ filesLeft = MaxFiles
    /\ scheduler = 0
    /\ pool = EmptyPool
    /\ engines = <<>>
    /\ pc = [i \in Jobs |-> "idle"]
    /\ awaits = [i \in Jobs |-> {}]
    /\ url = [i \in Jobs |-> "none"]
    /\ jobErr = [i \in Jobs |-> "none"]
    /\ text = [i \in Jobs |-> NoText]
    /\ value = [i \in Jobs |-> Null]
    /\ settled = [i \in Jobs |-> 0]
    /\ results = [i \in Jobs |-> Null]
    /\ batchResults = <<>>
    /\ consoleErr = [i \in Jobs |-> NoLog]
    /\ exportCalls = 0
    /\ exported = <<>>
    /\ extract = NoExtract
    /\ csv = NoCsv

\* ------------------------------------------------------------- App.tsx
\* The batches a drop can deliver: the sequences of at most n files in which
\* neighbours differ (so that an entry at the wrong index is a wrong entry).
Batches(n) ==
    { fs \in UNION { [1..k -> FileSet] : k \in 0..n } :
        \A i \in 1..(Len(fs) - 1) : fs[i] # fs[i + 1] }

\* The event loop runs a continuation only when no callback is running.
Idle == onDropPc # "mapping"

\* A continuation of a settled promise (a microtask) is waiting to run.
MicrotaskPending ==
    \/ \E i \in 1..K :
          \/ pc[i] \in {"awaitSched", "jobResolved", "jobRejected", "piResolved", "piRejected"}
          \/ /\ pc[i] = "awaitInit"
             /\ \/ \A w \in awaits[i] : engines[w] = "ready"
                \/ \E w \in awaits[i] : engines[w] = "failed"
    \/ /\ onDropPc = "awaitAll"
       /\ \A i \in 1..K : pc[i] = "fulfilled"

\* An event from outside (a drop, a message of an engine's web worker) is a
\* task: the event loop takes it only once every microtask has run.
TaskTurn == Idle /\ ~MicrotaskPending

\* App.tsx:13-18: onDrop starts; map has not called a callback yet.
\* The dropzone is disabled while processing (App.tsx:47).
OnDrop(fs) ==
    /\ onDropPc = "idle"
    /\ TaskTurn
    /\ Len(fs) <= filesLeft
    /\ processing' = TRUE
    /\ totalFiles' = Len(fs)
    /\ completedCount' = 0
    /\ acceptedFiles' = fs
    /\ filesLeft' = filesLeft - Len(fs)
    /\ mapIndex' = 1
    /\ onDropPc' = IF Len(fs) = 0 THEN "awaitAll" ELSE "mapping"
    /\ pc' = [i \in Jobs |-> "idle"]
    /\ awaits' = [i \in Jobs |-> {}]
    /\ url' = [i \in Jobs |-> "none"]
    /\ jobErr' = [i \in Jobs |-> "none"]
    /\ text' = [i \in Jobs |-> NoText]
    /\ value' = [i \in Jobs |-> Null]
    /\ settled' = [i \in Jobs |-> 0]
    /\ results' = [i \in Jobs |-> Null]
    /\ consoleErr' = [i \in Jobs |-> NoLog]
    /\ batchResults' = <<>>
    /\ exportCalls' = 0
    /\ exported' = <<>>
    /\ UNCHANGED << scheduler, pool, engines, extract, csv >>

\* A guard that takes the pool for initialised only once it is full.
SchedulerReady == scheduler # 0 /\ NumWorkers(pool) = WORKER_COUNT

\* ocr.ts:16: if (scheduler) return scheduler;
SchedulerSet == scheduler # 0

\* App.tsx:18-20 with ocr.ts:29-30 and 15-25: map calls the callback of file i,
\* which runs processImage and getScheduler synchronously up to their first await.
MapCallback(i) ==
    /\ onDropPc = "mapping"
    /\ mapIndex = i
    /\ i <= K
    /\ IF SchedulerSet
       THEN \* line 16: getScheduler returns the scheduler at once
            /\ pc' = [pc EXCEPT ![i] = "awaitSched"]
            /\ UNCHANGED << scheduler, pool, engines, awaits >>
       ELSE \* lines 18-25: create the scheduler, start the engines, await them all
            /\ scheduler' = scheduler + 1
            /\ pool' = EmptyPool
            /\ engines' = engines \o [n \in 1..WORKER_COUNT |-> "creating"]
            /\ awaits' = [awaits EXCEPT ![i] = (Len(engines) + 1)..(Len(engines) + WORKER_COUNT)]
            /\ pc' = [pc EXCEPT ![i] = "awaitInit"]
    /\ mapIndex' = i + 1
    /\ onDropPc' = IF i = K THEN "awaitAll" ELSE "mapping"
    /\ UNCHANGED << processing, totalFiles, completedCount, acceptedFiles, filesLeft,
                    url, jobErr, text, value, settled, results, batchResults,
                    consoleErr, exportCalls, exported, extract, csv >>

\* ------------------------------------------------------------- ocr.ts
\* ocr.ts:20-22: createWorker("eng") of initializer w resolved; the worker is
\* added to the scheduler, which hands it a queued job if there is one.
CreateWorkerResolve(w) ==
    /\ TaskTurn
    /\ w \in 1..Len(engines)
    /\ engines[w] = "creating"
    /\ engines' = [engines EXCEPT ![w] = "ready"]
    /\ pool' = AddWorker(pool, w)
    /\ UNCHANGED << appVars, scheduler, pc, awaits, url, jobErr, text, value,
                    settled, results, consoleErr >>

\* ocr.ts:20: createWorker("eng") of initializer w rejected; nothing is added.
CreateWorkerReject(w) ==
    /\ TaskTurn
    /\ w \in 1..Len(engines)
    /\ engines[w] = "creating"
    /\ engines' = [engines EXCEPT ![w] = "failed"]
    /\ UNCHANGED << appVars, scheduler, pool, pc, awaits, url, jobErr, text, value,
                    settled, results, consoleErr >>

\* ocr.ts:25-26: Promise.all(workerInitializers) resolved, getScheduler returns.
GetSchedulerReturn(i) ==
    /\ Idle
    /\ pc[i] = "awaitInit"
    /\ \A w \in awaits[i] : engines[w] = "ready"
    /\ pc' = [pc EXCEPT ![i] = "awaitSched"]
    /\ UNCHANGED << appVars, scheduler, pool, engines, awaits, url, jobErr, text,
                    value, settled, results, consoleErr >>

\* ocr.ts:25 and 30: Promise.all rejected with the first failed initializer, so
\* getScheduler rejects, and processImage with it (line 30 is outside the try).
GetSchedulerReject(i) ==
    /\ Idle
    /\ pc[i] = "awaitInit"
    /\ \E w \in awaits[i] : engines[w] = "failed"
    /\ pc' = [pc EXCEPT ![i] = "piRejected"]
    /\ jobErr' = [jobErr EXCEPT ![i] = "init"]
    /\ settled' = [settled EXCEPT ![i] = @ + 1]
    /\ UNCHANGED << appVars, scheduler, pool, engines, awaits, url, text, value,
                    results, consoleErr >>

\* A submission that bypasses the queue and calls the first worker directly.
SubmitDirect(p, j) ==
    [p EXCEPT !.active = @ \cup {[job |-> j.job, url |-> j.url, worker |-> p.workers[1]]}]

\* ocr.ts:34: tsScheduler.addJob("recognize", imageUrl)
SubmitJob(p, j) == AddJob(p, j)

\* ocr.ts:30-34: processImage resumes with the scheduler, creates the object URL
\* and submits the recognition job; addJob rejects on a scheduler without workers.
Submit(i) ==
    /\ Idle
    /\ pc[i] = "awaitSched"
    /\ url' = [url EXCEPT ![i] = "live"]
    /\ IF AddJobThrows(pool)
       THEN /\ pc' = [pc EXCEPT ![i] = "jobRejected"]
            /\ jobErr' = [jobErr EXCEPT ![i] = "noworker"]
            /\ pool' = pool
       ELSE /\ pc' = [pc EXCEPT ![i] = "awaitJob"]
            /\ jobErr' = jobErr
            /\ pool' = SubmitJob(pool, [job |-> i, url |-> acceptedFiles[i].image])
    /\ UNCHANGED << appVars, scheduler, engines, awaits, text, value, settled,
                    results, consoleErr >>

\* The engine of recognition a returned the text of its image: the job's
\* promise resolves with it, the worker is freed and takes the next queued job.
RecognizeResolve(a) ==
    /\ TaskTurn
    /\ a \in pool.active
    /\ pc' = [pc EXCEPT ![a.job] = "jobResolved"]
    /\ text' = [text EXCEPT ![a.job] = OcrText(a.url)]
    /\ pool' = FinishJob(pool, a)
    /\ UNCHANGED << appVars, scheduler, engines, awaits, url, jobErr, value,
                    settled, results, consoleErr >>

\* The engine raised an error: the job's promise rejects, the worker is freed.
RecognizeReject(a) ==
    /\ TaskTurn
    /\ a \in pool.active
    /\ pc' = [pc EXCEPT ![a.job] = "jobRejected"]
    /\ jobErr' = [jobErr EXCEPT ![a.job] = "engine"]
    /\ pool' = FinishJob(pool, a)
    /\ UNCHANGED << appVars, scheduler, engines, awaits, url, text, value,
                    settled, results, consoleErr >>

\* ocr.ts:35-98: revoke the URL, extract the fields, return the record.
ProcessImageReturn(i) ==
    /\ Idle
    /\ pc[i] = "jobResolved"
    /\ url' = [url EXCEPT ![i] = "revoked"]
    /\ value' = [value EXCEPT ![i] = ExtractedData(acceptedFiles[i], text[i])]
    /\ settled' = [settled EXCEPT ![i] = @ + 1]
    /\ pc' = [pc EXCEPT ![i] = "piResolved"]
    /\ UNCHANGED << appVars, scheduler, pool, engines, awaits, jobErr, text,
                    results, consoleErr >>

\* A catch block that forgets the URL.
UrlLeakedOnCatch == "live"

\* ocr.ts:100: URL.revokeObjectURL(imageUrl) in the catch block
UrlAfterCatch == "revoked"

\* ocr.ts:99-103: revoke the URL, log, rethrow.
ProcessImageCatch(i) ==
    /\ Idle
    /\ pc[i] = "jobRejected"
    /\ url' = [url EXCEPT ![i] = UrlAfterCatch]
    /\ settled' = [settled EXCEPT ![i] = @ + 1]
    /\ pc' = [pc EXCEPT ![i] = "piRejected"]
    /\ UNCHANGED << appVars, scheduler, pool, engines, awaits, jobErr, text, value,
                    results, consoleErr >>

\* ------------------------------------------------------ App.tsx, continued
\* A catch block that rethrows: the callback's promise rejects.
CallbackRethrows == [state |-> "rejected", value |-> Null]

\* A catch block that returns a marker object instead of null.
CallbackReturnsMarker ==
    [state |-> "fulfilled",
     value |-> [kind |-> "failure", imageName |-> "", originalText |-> NoText,
                error |-> "unknown"]]

\* App.tsx:23-27: what the map callback's promise settles with when
\* processImage rejected: the catch block returns null.
CallbackOnError == [state |-> "fulfilled", value |-> Null]

\* A catch block that does not count the file.
CountUnchangedOnCatch(prev) == prev

\* App.tsx:25: setCompletedCount(prev => prev + 1) in the catch block
CountAfterCatch(prev) == prev + 1

\* A Promise.all whose values come out in reverse order.
PromiseAllValuesReversed == [i \in 1..K |-> results[K + 1 - i]]

\* App.tsx:20-22: processImage resolved; count the file and return the record.
CallbackThen(i) ==
    /\ Idle
    /\ pc[i] = "piResolved"
    /\ completedCount' = completedCount + 1
    /\ results' = [results EXCEPT ![i] = value[i]]
    /\ pc' = [pc EXCEPT ![i] = "fulfilled"]
    /\ UNCHANGED << processing, totalFiles, acceptedFiles, onDropPc, mapIndex,
                    filesLeft, batchResults, exportCalls, exported, scheduler, pool,
                    engines, awaits, url, jobErr, text, value, settled, consoleErr, extract, csv >>

\* App.tsx:23-27: processImage rejected; log name and error, count the file,
\* return null.
CallbackCatch(i) ==
    /\ Idle
    /\ pc[i] = "piRejected"
    /\ consoleErr' = [consoleErr EXCEPT
                        ![i] = [name |-> acceptedFiles[i].name, error |-> jobErr[i]]]
    /\ completedCount' = CountAfterCatch(completedCount)
    /\ results' = [results EXCEPT ![i] = CallbackOnError.value]
    /\ pc' = [pc EXCEPT ![i] = CallbackOnError.state]
    /\ UNCHANGED << processing, totalFiles, acceptedFiles, onDropPc, mapIndex,
                    filesLeft, batchResults, exportCalls, exported, scheduler, pool,
                    engines, awaits, url, jobErr, text, value, settled, extract, csv >>

\* App.tsx:30: Promise.all(processingPromises) resolves once every promise is
\* fulfilled, with their values in the order of the input.
PromiseAllResolved == \A i \in 1..K : pc[i] = "fulfilled"

PromiseAllValues == [i \in 1..K |-> results[i]]

\* App.tsx:31: results.filter(r => r !== null)
FilterNonNull(rs) == SelectSeq(rs, LAMBDA r : r.kind # "null")

\* An export that is not guarded.
ShouldExportAlways(finalResults) == TRUE

\* App.tsx:33: if (finalResults.length > 0)
ShouldExport(finalResults) == Len(finalResults) > 0

\* App.tsx:30-39: the batch is complete: filter, export, reset the counters.
BatchFinish ==
    /\ onDropPc = "awaitAll"
    /\ PromiseAllResolved
    /\ batchResults' = PromiseAllValues
    /\ LET finalResults == FilterNonNull(PromiseAllValues)
       IN  IF ShouldExport(finalResults)
           THEN /\ exportCalls' = exportCalls + 1
                /\ exported' = finalResults
           ELSE UNCHANGED << exportCalls, exported >>
    /\ processing' = FALSE
    /\ totalFiles' = 0
    /\ completedCount' = 0
    /\ onDropPc' = "idle"
    /\ UNCHANGED << acceptedFiles, mapIndex, filesLeft, scheduler, pool, engines,
                    pc, awaits, url, jobErr, text, value, settled, results,
                    consoleErr, extract, csv >>

\* ---------------------------------------------------------- specification
Next ==
    \/ \E fs \in Batches(filesLeft) : OnDrop(fs)
    \/ \E i \in Jobs : MapCallback(i)
    \/ \E w \in 1..Len(engines) : CreateWorkerResolve(w)
    \/ \E w \in 1..Len(engines) : CreateWorkerReject(w)
    \/ \E i \in Jobs : GetSchedulerReturn(i)
    \/ \E i \in Jobs : GetSchedulerReject(i)
    \/ \E i \in Jobs : Submit(i)
    \/ \E a \in pool.active : RecognizeResolve(a)
    \/ \E a \in pool.active : RecognizeReject(a)
    \/ \E i \in Jobs : ProcessImageReturn(i)
    \/ \E i \in Jobs : ProcessImageCatch(i)
    \/ \E i \in Jobs : CallbackThen(i)
    \/ \E i \in Jobs : CallbackCatch(i)
    \/ BatchFinish

Spec == Init /\ [][Next]_vars

\* Every continuation the event loop holds is eventually run, every engine
\* construction settles and every recognition an engine has started ends.
\* Nothing obliges the user to drop files.
Fairness ==
    /\ \A i \in Jobs :
          /\ WF_vars(MapCallback(i))
          /\ WF_vars(GetSchedulerReturn(i))
          /\ WF_vars(GetSchedulerReject(i))
          /\ WF_vars(Submit(i))
          /\ WF_vars(ProcessImageReturn(i))
          /\ WF_vars(ProcessImageCatch(i))
          /\ WF_vars(CallbackThen(i))
          /\ WF_vars(CallbackCatch(i))
    /\ \A w \in 1..WORKER_COUNT :
          WF_vars(CreateWorkerResolve(w) \/ CreateWorkerReject(w))
    /\ \A i \in Jobs :
          WF_vars(\E a \in pool.active :
                    a.job = i /\ (RecognizeResolve(a) \/ RecognizeReject(a)))
    /\ WF_vars(BatchFinish)

FairSpec == Init /\ [][Next]_vars /\ Fairness

\* ------------------------------------------------------------ vocabulary
\* onDrop has returned: the batch in acceptedFiles is complete.
BatchDone == onDropPc = "idle"

\* The processImage call of file i has not settled yet.
Pending(i) == pc[i] \in {"awaitInit", "awaitSched", "awaitJob", "jobResolved", "jobRejected"}

\* The processImage call of file i has settled.
Settled(i) == pc[i] \in {"piResolved", "piRejected", "fulfilled", "rejected"}

EngineFailed == \E w \in 1..Len(engines) : engines[w] = "failed"

\* The recognition call (addJob) of file i was made and rejected.
RecognitionFailed(i) == jobErr[i] \in {"noworker", "engine"}

Successes == { i \in 1..K : jobErr[i] = "none" }

\* The workers of the pool that execute no recognition.
IdleEngines == { w \in 1..Len(engines) :
                   /\ \E n \in 1..Len(pool.workers) : pool.workers[n] = w
                   /\ \A a \in pool.active : a.worker # w }

\* ------------------------------------------------------------------ C1
\* C1: in every fair execution, engine constructions that reject included,
\* each processImage call of a batch settles, and settles exactly once; no
\* job stays pending for ever; and the batch finishes (Promise.all resolves
\* and processing is set back to false).  A call is pending only while
\* processing holds, so the last conjunct covers every pending call.
C1_EveryJobSettlesBatchFinishes ==
    /\ [](\A i \in Jobs : /\ settled[i] <= 1
                          /\ Settled(i) => settled[i] = 1
                          /\ Pending(i) => processing
                          /\ pc[i] # "rejected")
    /\ processing ~> (/\ ~processing
                      /\ \A i \in 1..K : Settled(i) /\ settled[i] = 1 /\ pc[i] = "fulfilled")

\* A batch of two or more files has finished although an engine construction
\* rejected, with one file recognised and every call settled once.
C1_Witness ==
    /\ BatchDone /\ ~processing
    /\ K >= 2
    /\ EngineFailed
    /\ \E i \in 1..K : jobErr[i] = "none" /\ results[i].kind = "record"
    /\ \A i \in 1..K : settled[i] = 1

C3_ResultsIndexCorrespondence ==
    BatchDone =>
        /\ Len(batchResults) = K
        /\ \A i \in 1..K :
              IF jobErr[i] = "none"
              THEN /\ batchResults[i].kind = "record"
                   /\ batchResults[i].imageName = acceptedFiles[i].name
                   /\ batchResults[i].originalText = OcrText(acceptedFiles[i].image)
              ELSE batchResults[i].kind # "record"

\* A complete batch of three or more files whose first two entries are
\* records of different files and which holds a failed entry too.
C3_Witness ==
    /\ BatchDone
    /\ K >= 3
    /\ batchResults[1].kind = "record"
    /\ batchResults[2].kind = "record"
    /\ batchResults[1].imageName # batchResults[2].imageName
    /\ \E j \in 1..K : batchResults[j].kind = "null"

C5_SingleConstruction ==
    /\ scheduler \in {0, 1}
    /\ Len(engines) = scheduler * WORKER_COUNT
    /\ (\E i \in Jobs : pc[i] # "idle") => scheduler = 1
    /\ NumWorkers(pool) <= WORKER_COUNT
    /\ \A m, n \in 1..NumWorkers(pool) : pool.workers[m] = pool.workers[n] => m = n
    /\ \A n \in 1..NumWorkers(pool) :
          pool.workers[n] \in 1..Len(engines) /\ engines[pool.workers[n]] = "ready"

\* A later batch: none of its getScheduler calls constructed anything, and
\* two of them were made at once on the pool of WORKER_COUNT engines.
C5_Witness ==
    /\ onDropPc = "awaitAll"
    /\ K >= 2
    /\ \A i \in 1..K : awaits[i] = {}
    /\ pc[1] = "awaitSched" /\ pc[2] = "awaitSched"
    /\ NumWorkers(pool) = WORKER_COUNT
    /\ scheduler = 1

\* ------------------------------------------------------------------ C6
\* C6: a getScheduler call made while the initialisation is in progress waits
\* for it: no call has returned the pool, and no job has been submitted to
\* it, while the pool holds fewer than WORKER_COUNT engines.
C6_NoReturnBeforePoolBuilt ==
    \A i \in 1..K :
        (pc[i] \in {"awaitSched", "awaitJob"} \/ url[i] # "none") =>
            NumWorkers(pool) = WORKER_COUNT

\* ------------------------------------------------------------------ C7
\* C7: once an engine construction has failed, every getScheduler call fails:
\* none returns the pool, no job is submitted to it or run on it, and no
\* file of the batch gets a record.
C7_FailedInitIsFatal ==
    EngineFailed =>
        /\ \A i \in 1..K : pc[i] \notin {"awaitSched", "awaitJob", "jobResolved", "piResolved"}
        /\ pool.active = {}
        /\ pool.jobQueue = <<>>

\* ------------------------------------------------------------------ C8
\* C8: in every state each engine of the pool executes at most one
\* recognition, so at most WORKER_COUNT are active at once; a job is never
\* both queued and active, nor active twice; and no state has both a queued
\* job and an idle engine.
C8_OneJobPerEngine ==
    /\ \A a, b \in pool.active : a.worker = b.worker => a = b
    /\ \A a, b \in pool.active : a.job = b.job => a = b
    /\ Cardinality(pool.active) <= WORKER_COUNT
    /\ \A a \in pool.active :
          /\ \E n \in 1..NumWorkers(pool) : pool.workers[n] = a.worker
          /\ a.worker \in pool.runningWorkers
          /\ pc[a.job] = "awaitJob"
          /\ \A n \in 1..Len(pool.jobQueue) : pool.jobQueue[n].job # a.job
    /\ pool.jobQueue # <<>> => IdleEngines = {}

\* Every engine of the full pool is busy and a further job waits in the queue.
C8_Witness ==
    /\ NumWorkers(pool) = WORKER_COUNT
    /\ Cardinality(pool.active) = WORKER_COUNT
    /\ pool.jobQueue # <<>>

\* ------------------------------------------------------------------ C9
\* C9: once a processImage call has settled, resolved or rejected, the object
\* URL it created is revoked; after a batch no URL of it is live; a call
\* that failed acquiring the pool created no URL; and every call that
\* submitted a job created one.
C9_UrlReleased ==
    \A i \in 1..K :
        /\ Settled(i) => url[i] # "live"
        /\ BatchDone => url[i] # "live"
        /\ jobErr[i] = "init" => url[i] = "none"
        /\ (Settled(i) /\ jobErr[i] # "init") => url[i] = "revoked"
        /\ pc[i] \in {"awaitJob", "jobResolved", "jobRejected"} => url[i] = "live"

\* A complete batch with a file that succeeded and a file whose recognition
\* raised an engine error, the URLs of both revoked.
C9_Witness ==
    /\ BatchDone
    /\ \E i, j \in 1..K :
          /\ jobErr[i] = "none" /\ url[i] = "revoked"
          /\ jobErr[j] = "engine" /\ url[j] = "revoked"

\* ----------------------------------------------------------------- C10
\* C10: exportToCSV is called at most once per batch, and only by a complete
\* batch; it is called exactly when a file succeeded; its argument holds
\* records only, one per file that succeeded, each that file's record.
C10_ExportOnceSuccessesOnly ==
    /\ exportCalls <= 1
    /\ exportCalls = 1 => (BatchDone /\ \A i \in 1..K : pc[i] = "fulfilled")
    /\ BatchDone => (exportCalls = 1 <=> Successes # {})
    /\ exportCalls = 0 => exported = <<>>
    /\ BatchDone =>
          /\ Len(exported) = Cardinality(Successes)
          /\ \A n \in 1..Len(exported) : exported[n].kind = "record"
          /\ \A i \in Successes : \E n \in 1..Len(exported) : exported[n] = value[i]
          /\ \A n \in 1..Len(exported) : \E i \in Successes : exported[n] = value[i]

\* A complete batch with a file that failed and a file that succeeded, and
\* one export.
C10_Witness ==
    /\ BatchDone
    /\ K >= 2
    /\ exportCalls = 1
    /\ Len(exported) < K
    /\ \E j \in 1..K : jobErr[j] # "none"

\* ----------------------------------------------------------------- C18
\* C18: while a batch of K files is processed, totalFiles is K and
\* completedCount is the number of files whose map callback has ended, by
\* success or by failure, so 0 <= completedCount <= totalFiles; the counter
\* moves by one file at a time; and processing is set back to false only
\* when completedCount has reached K, the counters then being reset to 0.
C18_CountsTerminalJobs ==
    IF processing
    THEN /\ totalFiles = K
         /\ completedCount = Cardinality({ i \in 1..K : pc[i] = "fulfilled" })
         /\ 0 <= completedCount
         /\ completedCount <= totalFiles
    ELSE totalFiles = 0 /\ completedCount = 0

C18_CountStep ==
    /\ (processing /\ processing') =>
           (completedCount' \in {completedCount, completedCount + 1})
    /\ (processing /\ ~processing') =>
           (completedCount = K /\ completedCount' = 0 /\ totalFiles' = 0)

\* C18: the counters always account for the files whose callback has ended,
\* and every step changes them as one file ending or as the final reset.
C18_ProgressAccounting == []C18_CountsTerminalJobs /\ [][C18_CountStep]_vars

\* Every file of a batch with a success and a failure is counted, and
\* onDrop has not reset the counters yet.
C18_Witness ==
    /\ processing
    /\ K >= 2
    /\ completedCount = K
    /\ \E i, j \in 1..K : jobErr[i] = "none" /\ jobErr[j] # "none"

\* ----------------------------------------------------------------- C19
\* C19: the records passed to exportToCSV are the records of the files that
\* succeeded, in the order of those files in the input, whatever order the
\* recognitions ended in and whichever failed.
C19_ExportInInputOrder ==
    (BatchDone /\ exportCalls = 1) =>
        \E f \in [1..Len(exported) -> 1..K] :
            /\ \A n \in 1..Len(exported) : f[n] \in Successes /\ exported[n] = value[f[n]]
            /\ \A m, n \in 1..Len(exported) : m < n => f[m] < f[n]
            /\ \A i \in Successes : \E n \in 1..Len(exported) : f[n] = i

\* An export of two records of different files from a batch in which a
\* file failed.
C19_Witness ==
    /\ BatchDone
    /\ exportCalls = 1
    /\ Len(exported) >= 2
    /\ exported[1].imageName # exported[2].imageName
    /\ \E j \in 1..K : jobErr[j] # "none"


\* ------------------------------------------------- strings and regexes
\* A string is a sequence of one-character strings, so that the
\* extraction can look at its characters as the JavaScript code does.
Digit == {"0", "1", "2", "3", "4", "5", "6", "7", "8", "9"}

Upper == {"A", "B", "C", "D", "E", "F", "G", "H", "I", "J", "K", "L", "M",
          "N", "O", "P", "Q", "R", "S", "T", "U", "V", "W", "X", "Y", "Z"}

Lower == {"a", "b", "c", "d", "e", "f", "g", "h", "i", "j", "k", "l", "m",
          "n", "o", "p", "q", "r", "s", "t", "u", "v", "w", "x", "y", "z"}

\* [A-Z0-9] under the i flag, and [A-Za-z0-9].
Alnum == Digit \cup Upper \cup Lower

\* \s, as far as the texts of the model go.
WhiteSpace == {" ", "\n", "\t"}

SubStr(t, from, to) == [ n \in 1..(to - from) |-> t[from + n - 1] ]

RECURSIVE Flatten(_)
Flatten(ss) == IF ss = <<>> THEN <<>> ELSE Head(ss) \o Flatten(Tail(ss))

\* Regex syntax trees: a character class, a concatenation, an alternation
\* and a greedy repetition {lo,hi} or {lo,}.
Chr(cs) == [op |-> "chr", cs |-> cs]

Cat(rs) == [op |-> "cat", rs |-> rs]

Alt(rs) == [op |-> "alt", rs |-> rs]

Rep(r, lo, hi) == [op |-> "rep", r |-> r, lo |-> lo, hi |-> hi, open |-> FALSE]

RepFrom(r, lo) == [op |-> "rep", r |-> r, lo |-> lo, hi |-> lo, open |-> TRUE]

Opt(r) == Rep(r, 0, 1)

\* Ends(r, t, p): the positions at which a match of r that starts at
\* position p of t can end, in the order a backtracking matcher tries
\* them (greedy repetitions longest first, alternatives left to right).
RECURSIVE Ends(_, _, _), CatEnds(_, _, _, _), RepEnds(_, _, _, _)
Ends(r, t, p) ==
    CASE r.op = "chr" -> IF p <= Len(t) /\ t[p] \in r.cs THEN << p + 1 >> ELSE <<>>
      [] r.op = "cat" -> CatEnds(r.rs, 1, t, p)
      [] r.op = "alt" -> Flatten([ k \in 1..Len(r.rs) |-> Ends(r.rs[k], t, p) ])
      [] r.op = "rep" -> RepEnds(r, 0, t, p)

CatEnds(rs, k, t, p) ==
    IF k > Len(rs) THEN << p >>
    ELSE LET es == Ends(rs[k], t, p)
         IN  Flatten([ n \in 1..Len(es) |-> CatEnds(rs, k + 1, t, es[n]) ])

RepEnds(r, done, t, p) ==
    LET es   == IF r.open \/ done < r.hi THEN Ends(r.r, t, p) ELSE <<>>
        more == Flatten([ n \in 1..Len(es) |->
                            IF es[n] > p THEN RepEnds(r, done + 1, t, es[n]) ELSE <<>> ])
    IN  more \o (IF done >= r.lo THEN << p >> ELSE <<>>)

\* The first way a concatenation matches from p: the start followed by
\* the end of each part, or <<>> when it does not match there.
RECURSIVE FirstPath(_, _, _, _), FirstOf(_, _, _, _, _)
FirstPath(rs, k, t, p) ==
    IF k > Len(rs) THEN << p >>
    ELSE LET rest == FirstOf(rs, k, t, Ends(rs[k], t, p), 1)
         IN  IF rest = <<>> THEN <<>> ELSE << p >> \o rest

FirstOf(rs, k, t, es, n) ==
    IF n > Len(es) THEN <<>>
    ELSE LET path == FirstPath(rs, k + 1, t, es[n])
         IN  IF path = <<>> THEN FirstOf(rs, k, t, es, n + 1) ELSE path

\* The first end of a greedy repetition from p, found without listing the
\* other ends: one more round is tried before stopping, the ends of the
\* round in their order; 0 when the repetition does not match.
RECURSIVE FirstRepEnd(_, _, _, _), FirstRound(_, _, _, _, _, _)
FirstRepEnd(r, done, t, p) ==
    LET es == IF r.open \/ done < r.hi THEN Ends(r.r, t, p) ELSE <<>>
        e  == FirstRound(r, done, t, p, es, 1)
    IN  IF e # 0 THEN e ELSE IF done >= r.lo THEN p ELSE 0

FirstRound(r, done, t, p, es, n) ==
    IF n > Len(es) THEN 0
    ELSE LET e == IF es[n] > p THEN FirstRepEnd(r, done + 1, t, es[n]) ELSE 0
         IN  IF e # 0 THEN e ELSE FirstRound(r, done, t, p, es, n + 1)

NoMatch == [found |-> FALSE]

\* String.prototype.match without the g flag: the leftmost start at
\* which the regex matches, with the boundaries of its top-level parts.
RECURSIVE Search(_, _, _)
Search(rs, t, from) ==
    IF from > Len(t) + 1 THEN NoMatch
    ELSE LET path == FirstPath(rs, 1, t, from)
         IN  IF path = <<>> THEN Search(rs, t, from + 1)
             ELSE [found |-> TRUE, start |-> from, end |-> path[Len(path)], at |-> path]

Matched(t, m) == SubStr(t, m.start, m.end)

\* The text of the k-th top-level part of a match.
Part(t, m, k) == SubStr(t, m.at[k], m.at[k + 1])

\* String.prototype.match with the g flag: every match, left to right,
\* each search resuming where the previous match ended.
RECURSIVE MatchAll(_, _, _)
MatchAll(rs, t, from) ==
    LET m == Search(rs, t, from)
    IN  IF ~m.found THEN <<>>
        ELSE << Matched(t, m) >>
             \o MatchAll(rs, t, IF m.end > m.start THEN m.end ELSE m.end + 1)

\* String.prototype.trim.
RECURSIVE TrimStart(_), TrimEnd(_)
TrimStart(t) == IF t # <<>> /\ Head(t) \in WhiteSpace THEN TrimStart(Tail(t)) ELSE t

TrimEnd(t) ==
    IF t # <<>> /\ t[Len(t)] \in WhiteSpace THEN TrimEnd(SubStr(t, 1, Len(t))) ELSE t

Trim(t) == TrimEnd(TrimStart(t))


\* ------------------------------------------------ ocr.ts: extraction
\* The default of every field (ocr.ts:46, 68, 69, 83), and the empty
\* string.
EmptyText == <<>>

NotFound == << "N", "o", "t", " ", "f", "o", "u", "n", "d" >>

\* text.replace(/\n/g, " ").replace(/\s+/g, " ")
NewlinesToSpaces(t) == [ n \in 1..Len(t) |-> IF t[n] = "\n" THEN " " ELSE t[n] ]

RECURSIVE CollapseSpaces(_)
CollapseSpaces(t) ==
    IF t = <<>> THEN <<>>
    ELSE IF Head(t) \in WhiteSpace THEN << " " >> \o CollapseSpaces(TrimStart(t))
    ELSE << Head(t) >> \o CollapseSpaces(Tail(t))

normalizedText(t) == CollapseSpaces(NewlinesToSpaces(t))

\* /[A-Z0-9]{4,8}\+[A-Z0-9]{2,4}/i
simplePlusCodeRegex ==
    << Rep(Chr(Alnum), 4, 8), Chr({"+"}), Rep(Chr(Alnum), 2, 4) >>

\* The separators of the address suffix without the comma.
SpacesOnly == WhiteSpace

\* [\s,] and [,\s]
Separator == WhiteSpace \cup {","}

\* /^(?:[\s,]+[A-Za-z0-9]{2,}(?:[\s,]+[A-Za-z0-9]{2,})*)*/
addressCleanupRegex ==
    RepFrom(Cat(<< RepFrom(Chr(Separator), 1), RepFrom(Chr(Alnum), 2),
                   RepFrom(Cat(<< RepFrom(Chr(Separator), 1),
                                  RepFrom(Chr(Alnum), 2) >>), 0) >>), 0)

\* String.prototype.indexOf from a position; 0 when s does not occur.
RECURSIVE IndexOf(_, _, _)
IndexOf(t, s, from) ==
    IF from + Len(s) > Len(t) + 1 THEN 0
    ELSE IF SubStr(t, from, from + Len(s)) = s THEN from
    ELSE IndexOf(t, s, from + 1)

\* normalizedText.split(pc)[1] || "": the piece between the first and
\* the second occurrence of the code, or up to the end of the text.
afterMatch(t, code) ==
    LET first  == IndexOf(t, code, 1)
        second == IF first = 0 THEN 0 ELSE IndexOf(t, code, first + Len(code))
    IN  IF first = 0 THEN <<>>
        ELSE SubStr(t, first + Len(code), IF second = 0 THEN Len(t) + 1 ELSE second)

\* addressSuffix[0]: the regex is anchored at the start and can match
\* the empty string, so it always matches.
addressSuffix(after) == SubStr(after, 1, FirstRepEnd(addressCleanupRegex, 0, after, 1))

\* .replace(/[,\s]+$/, "")
RECURSIVE StripTrailingSeparators(_)
StripTrailingSeparators(t) ==
    IF t # <<>> /\ t[Len(t)] \in Separator
    THEN StripTrailingSeparators(SubStr(t, 1, Len(t)))
    ELSE t

\* ocr.ts:44-57
finalPlusCode(nt) ==
    LET plusCodeMatch == Search(simplePlusCodeRegex, nt, 1)
    IN  IF ~plusCodeMatch.found THEN NotFound
        ELSE LET code == Trim(Matched(nt, plusCodeMatch))
             IN  code \o StripTrailingSeparators(addressSuffix(afterMatch(nt, code)))

\* /-?\d{1,3}[.,]\d{3,12}/g
allNumbersRegex ==
    << Opt(Chr({"-"})), Rep(Chr(Digit), 1, 3), Chr({".", ","}), Rep(Chr(Digit), 3, 12) >>

DigitValue(d) == CHOOSE v \in 0..9 : ToString(v) = d

RECURSIVE DigitsValue(_)
DigitsValue(ds) ==
    IF ds = <<>> THEN 0 ELSE 10 * DigitsValue(SubStr(ds, 1, Len(ds))) + DigitValue(ds[Len(ds)])

RECURSIVE NatDigits(_)
NatDigits(v) == IF v < 10 THEN << ToString(v) >> ELSE NatDigits(v \div 10) \o << ToString(v % 10) >>

RECURSIVE StripTrailingZeros(_)
StripTrailingZeros(ds) ==
    IF ds # <<>> /\ ds[Len(ds)] = "0" THEN StripTrailingZeros(SubStr(ds, 1, Len(ds))) ELSE ds

\* n.replace(',', '.'): the first comma only.
ReplaceFirstComma(t) ==
    LET at == IndexOf(t, << "," >>, 1)
    IN  [ n \in 1..Len(t) |-> IF n = at THEN "." ELSE t[n] ]

\* parseFloat of a string of the shape -?digits.digits: the number, as
\* its sign, its integer part and the digits of its fraction (a number
\* of at most 15 significant digits is held exactly enough by a double
\* to print back as these digits).
parseFloat(t) ==
    LET dot    == IndexOf(t, << "." >>, 1)
        neg    == t[1] = "-"
        whole  == SubStr(t, IF neg THEN 2 ELSE 1, dot)
    IN  [neg |-> neg, int |-> DigitsValue(whole),
         frac |-> StripTrailingZeros(SubStr(t, dot + 1, Len(t) + 1))]

IsZero(n) == n.int = 0 /\ n.frac = <<>>

\* n >= k and n <= k for a natural number k.
GreaterEq(n, k) == IF n.neg /\ ~IsZero(n) THEN FALSE ELSE n.int >= k

LessEq(n, k) ==
    IF n.neg THEN TRUE ELSE n.int < k \/ (n.int = k /\ n.frac = <<>>)

\* Number.prototype.toString of such a number.
toString(n) ==
    (IF n.neg /\ ~IsZero(n) THEN << "-" >> ELSE <<>>)
    \o NatDigits(n.int)
    \o (IF n.frac = <<>> THEN <<>> ELSE << "." >> \o n.frac)

\* ocr.ts:62
potentialCoords(nt) ==
    LET found == MatchAll(allNumbersRegex, nt, 1)
    IN  [ k \in 1..Len(found) |-> parseFloat(ReplaceFirstComma(found[k])) ]

\* The filter of ocr.ts:65 with its bounds swapped for those of ocr.ts:66.
InLongitudeRangeOnly(n) == GreaterEq(n, 60) /\ LessEq(n, 78)

\* n >= 23 && n <= 37
InLatitudeRange(n) == GreaterEq(n, 23) /\ LessEq(n, 37)

\* n >= 60 && n <= 78
InLongitudeRange(n) == GreaterEq(n, 60) /\ LessEq(n, 78)

latCandidates(nt) == SelectSeq(potentialCoords(nt), InLatitudeRange)

lonCandidates(nt) == SelectSeq(potentialCoords(nt), InLongitudeRange)

\* ocr.ts:68-72
latitude(nt) ==
    LET found == latCandidates(nt)
    IN  IF Len(found) > 0 THEN toString(found[1]) ELSE NotFound

longitude(nt) ==
    LET found == lonCandidates(nt)
    IN  IF Len(found) > 0 THEN toString(found[1]) ELSE NotFound


\* \d{1,2}\/\d{1,2}\/\d{2,4}
DateRegex ==
    Cat(<< Rep(Chr(Digit), 1, 2), Chr({"/"}), Rep(Chr(Digit), 1, 2), Chr({"/"}),
           Rep(Chr(Digit), 2, 4) >>)

\* (?::\d{2})?
SecondsRegex == Opt(Cat(<< Chr({":"}), Rep(Chr(Digit), 2, 2) >>))

\* (?:AM|PM) under the i flag
AmPmRegex ==
    Alt(<< Cat(<< Chr({"A", "a"}), Chr({"M", "m"}) >>),
           Cat(<< Chr({"P", "p"}), Chr({"M", "m"}) >>) >>)

\* \d{1,2}:\d{2}(?::\d{2})?\s?(?:AM|PM)
Time12Regex ==
    Cat(<< Rep(Chr(Digit), 1, 2), Chr({":"}), Rep(Chr(Digit), 2, 2), SecondsRegex,
           Opt(Chr(WhiteSpace)), AmPmRegex >>)

\* \d{1,2}:\d{2}(?::\d{2})?\s?(?:AM|PM)?
TimeOptAmPmRegex ==
    Cat(<< Rep(Chr(Digit), 1, 2), Chr({":"}), Rep(Chr(Digit), 2, 2), SecondsRegex,
           Opt(Chr(WhiteSpace)), Opt(AmPmRegex) >>)

\* \d{2}:\d{2}(?::\d{2})?
Time24Regex ==
    Cat(<< Rep(Chr(Digit), 2, 2), Chr({":"}), Rep(Chr(Digit), 2, 2), SecondsRegex >>)

\* \s+ between the two groups
Gap == RepFrom(Chr(WhiteSpace), 1)

\* ocr.ts:75-80: group 1, the gap, group 2.
patterns ==
    << << Time12Regex, Gap, DateRegex >>,
       << DateRegex, Gap, TimeOptAmPmRegex >>,
       << Time24Regex, Gap, DateRegex >>,
       << DateRegex, Gap, Time24Regex >> >>

\* `${match[1]} ${match[2]}`.trim()
JoinGroups(nt, m) == Trim(Part(nt, m, 1) \o << " " >> \o Part(nt, m, 3))

\* The loop of ocr.ts:84-89 without its break: the last pattern that
\* matches decides.
RECURSIVE LastMatching(_, _, _)
LastMatching(nt, k, sofar) ==
    IF k > Len(patterns) THEN sofar
    ELSE LET m == Search(patterns[k], nt, 1)
         IN  LastMatching(nt, k + 1, IF m.found THEN JoinGroups(nt, m) ELSE sofar)

\* The loop of ocr.ts:84-89: the first pattern that matches decides.
RECURSIVE FirstMatching(_, _, _)
FirstMatching(nt, k, sofar) ==
    IF k > Len(patterns) THEN sofar
    ELSE LET m == Search(patterns[k], nt, 1)
         IN  IF m.found THEN JoinGroups(nt, m) ELSE FirstMatching(nt, k + 1, sofar)

timestamp(nt) == FirstMatching(nt, 1, NotFound)

\* ocr.ts:38-98: the fields of the record processImage returns for a
\* recognised text.
ExtractFields(t) ==
    LET nt == normalizedText(t)
    IN  [plusCode |-> finalPlusCode(nt), latitude |-> latitude(nt),
         longitude |-> longitude(nt), timestamp |-> timestamp(nt),
         originalText |-> t]


\* ------------------------------------------- recognised texts to extract
\* The longest text of a family, in tokens.
MaxTokens == 3

\* Numbers as they are stamped on a photograph: in the latitude range, in
\* the longitude range (comma for the decimal point), in neither,
\* negative, and on and just past an end of a range.
CoordTokens ==
    { << "3", "1", ".", "5", "2", "0", "4" >>,
      << "7", "4", ",", "3", "5", "8", "7" >>,
      << "1", "2", ".", "3", "4", "5" >>,
      << "-", "3", "1", ".", "5", "2", "0" >>,
      << "3", "7", ".", "0", "0", "0" >>,
      << "7", "8", ".", "0", "0", "0", "1" >> }

\* A plus code, address words, a one-letter word and a coordinate.
PlusTokens ==
    { << "9", "A", "B", "8", "+", "2", "X" >>,
      << "L", "a", "h", "o", "r", "e", "," >>,
      << "P", "u", "n", "j", "a", "b" >>,
      << "x" >>,
      << "3", "1", ".", "5", "2", "0", "4" >> }

\* Times with and without an AM/PM marker, a marker, and a date.
TimeTokens ==
    { << "1", "4", ":", "3", "0" >>,
      << "9", ":", "1", "5", "P", "M" >>,
      << "9", ":", "1", "5" >>,
      << "P", "M" >>,
      << "0", "8", "/", "1", "1", "/", "2", "0", "2", "3" >> }

\* The example text of the extraction.
SampleText ==
    << ".", ".", ".", "9", "A", "B", "8", "+", "2", "X", " ", "L",
       "a", "h", "o", "r", "e", ",", " ", "P", "u", "n", "j", "a",
       "b", " ", "3", "1", ".", "5", "2", "0", "4", ",", "7", "4",
       ".", "3", "5", "8", "7", " ", "s", "o", "m", "e", " ", "n",
       "o", "i", "s", "e", " ", "1", "4", ":", "3", "0", " ", "0",
       "8", "/", "1", "1", "/", "2", "0", "2", "3", ".", ".", "." >>

RECURSIVE JoinTokens(_, _)
JoinTokens(ws, sep) ==
    IF ws = <<>> THEN <<>>
    ELSE IF Len(ws) = 1 THEN ws[1]
    ELSE ws[1] \o sep \o JoinTokens(Tail(ws), sep)

\* Every text of at most MaxTokens tokens of a family.
Phrases(tokens, sep) ==
    { JoinTokens(ws, sep) : ws \in UNION { [1..n -> tokens] : n \in 0..MaxTokens } }

\* What the recognition can return: the families, written with single
\* spaces, runs of spaces and line breaks between the tokens.
Texts ==
    Phrases(PlusTokens, << " " >>) \cup Phrases(CoordTokens, << " ", " " >>)
    \cup Phrases(TimeTokens, << "\n" >>) \cup { SampleText }

\* The variables of the batch program, which an extraction or an export
\* looked at on its own leaves alone.
progVars == << processing, totalFiles, completedCount, acceptedFiles, onDropPc,
               mapIndex, filesLeft, scheduler, pool, engines, pc, awaits, url,
               jobErr, text, value, settled, results, batchResults, consoleErr,
               exportCalls, exported >>

\* The recognition returns a text (ocr.ts:33).
RecognisedText(t) ==
    /\ extract.phase = "idle"
    /\ extract' = [phase |-> "recognised", text |-> t]
    /\ UNCHANGED << progVars, csv >>

\* The extraction of ocr.ts:38-98 runs on it.
ExtractStep ==
    /\ extract.phase = "recognised"
    /\ extract' = [phase |-> "extracted", text |-> extract.text,
                   threw |-> FALSE, fields |-> ExtractFields(extract.text)]
    /\ UNCHANGED << progVars, csv >>

ExtractNext ==
    \/ \E t \in Texts : RecognisedText(t)
    \/ ExtractStep

ExtractSpec == Init /\ [][ExtractNext]_vars

Extracted == extract.phase = "extracted"


\* ------------------------------------------------ extraction: claims
\* The normalised text and the fields of the extraction at hand.
Normalised == normalizedText(extract.text)

Fields == extract.fields

Candidates == potentialCoords(Normalised)

\* The value n lies in [lo, hi].
InRange(n, lo, hi) == GreaterEq(n, lo) /\ LessEq(n, hi)

\* C12: for every recognised text, the empty one included, extraction
\* raises no error and each of plusCode, latitude, longitude and timestamp
\* is either a non-empty value matched in the text or exactly "Not found",
\* never the empty string.
C12_FieldsMatchedOrNotFound ==
    Extracted =>
        LET nt == Normalised
            c  == Candidates
        IN  /\ ~extract.threw
            /\ \A v \in { Fields.plusCode, Fields.latitude, Fields.longitude,
                          Fields.timestamp } : v # EmptyText
            /\ \/ Fields.plusCode = << "N", "o", "t", " ", "f", "o", "u", "n", "d" >>
               \/ IndexOf(nt, Fields.plusCode, 1) > 0
            /\ \/ Fields.timestamp = << "N", "o", "t", " ", "f", "o", "u", "n", "d" >>
               \/ IndexOf(nt, Fields.timestamp, 1) > 0
            /\ \A v \in { Fields.latitude, Fields.longitude } :
                  \/ v = << "N", "o", "t", " ", "f", "o", "u", "n", "d" >>
                  \/ \E k \in 1..Len(c) : v = toString(c[k])

\* A text with a plus code and a latitude but no longitude and no
\* timestamp has been extracted.
C12_Witness ==
    /\ Extracted
    /\ Fields.plusCode # NotFound
    /\ Fields.latitude # NotFound
    /\ Fields.longitude = NotFound
    /\ Fields.timestamp = NotFound

\* C13: over the left-to-right list of numeric candidates, latitude is
\* the first candidate with value in [23,37] and longitude the first with
\* value in [60,78], each chosen independently; a field is "Not found"
\* exactly when no candidate lies in its range; a candidate outside both
\* ranges, every negative one included, is never selected.
C13_CoordinateSelection ==
    Extracted =>
        LET c    == Candidates
            lats == { k \in 1..Len(c) : InRange(c[k], 23, 37) }
            lons == { k \in 1..Len(c) : InRange(c[k], 60, 78) }
        IN  /\ (Fields.latitude = NotFound) <=> (lats = {})
            /\ (Fields.longitude = NotFound) <=> (lons = {})
            /\ \A k \in lats : (\A j \in lats : k <= j)
                                  => Fields.latitude = toString(c[k])
            /\ \A k \in lons : (\A j \in lons : k <= j)
                                  => Fields.longitude = toString(c[k])
            /\ \A k \in 1..Len(c) :
                  (k \notin lats /\ k \notin lons)
                      => toString(c[k]) \notin { Fields.latitude, Fields.longitude }
            /\ \A k \in 1..Len(c) :
                  (c[k].neg /\ ~IsZero(c[k])) => (k \notin lats /\ k \notin lons)

\* Three candidates: the first in neither range, the second a longitude,
\* the third a latitude; both fields were selected past the first one.
C13_Witness ==
    /\ Extracted
    /\ Len(Candidates) = 3
    /\ ~InRange(Candidates[1], 23, 37) /\ ~InRange(Candidates[1], 60, 78)
    /\ Fields.longitude = toString(Candidates[2])
    /\ Fields.latitude = toString(Candidates[3])


\* The end of the run of characters of the set cs that starts at p.
RECURSIVE RunEnd(_, _, _)
RunEnd(t, p, cs) == IF p <= Len(t) /\ t[p] \in cs THEN RunEnd(t, p + 1, cs) ELSE p

\* The end of the token that starts at p: it runs up to the next
\* separator or the end of the text.
RECURSIVE TokenEnd(_, _)
TokenEnd(t, p) == IF p <= Len(t) /\ t[p] \notin Separator THEN TokenEnd(t, p + 1) ELSE p

\* The end of the maximal run of groups (separators, then a whole
\* alphanumeric token of length >= 2) that starts at p.
RECURSIVE WholeTokenGroupsEnd(_, _)
WholeTokenGroupsEnd(t, p) ==
    LET q == RunEnd(t, p, Separator)
        r == TokenEnd(t, q)
    IN  IF q > p /\ r - q >= 2 /\ (\A n \in q..(r - 1) : t[n] \in Alnum)
        THEN WholeTokenGroupsEnd(t, r)
        ELSE p

\* C14: plusCode is "Not found" when the normalised text has no plus-code
\* match; otherwise it is the first match followed by the run of groups
\* (separators, alphanumeric token of length >= 2) that starts right after
\* it and stops at the first token that does not fit, no part of which is
\* appended.
C14_SuffixStopsAtWholeToken ==
    Extracted =>
        LET m == Search(simplePlusCodeRegex, Normalised, 1)
        IN  IF ~m.found THEN Fields.plusCode = NotFound
            ELSE Fields.plusCode =
                     SubStr(Normalised, m.start, WholeTokenGroupsEnd(Normalised, m.end))


\* The four shapes when "12-hour time" is read as a time that carries its
\* AM/PM marker, in the second shape as in the first.
shapesWithMarker ==
    << << Time12Regex, Gap, DateRegex >>,
       << DateRegex, Gap, Time12Regex >>,
       << Time24Regex, Gap, DateRegex >>,
       << DateRegex, Gap, Time24Regex >> >>

\* The shapes of a list that match somewhere in the text.
MatchingShapes(shapes, nt) == { k \in 1..Len(shapes) : Search(shapes[k], nt, 1).found }

\* The timestamp a list of shapes yields when the first shape in the
\* order of the list that matches anywhere decides.
ByPriority(shapes, nt) ==
    LET ks == MatchingShapes(shapes, nt)
    IN  IF ks = {} THEN NotFound
        ELSE LET k == CHOOSE k \in ks : \A j \in ks : k <= j
                 m == Search(shapes[k], nt, 1)
             IN  Trim(Part(nt, m, 1) \o << " " >> \o Part(nt, m, 3))

\* C15 as worded: the shapes are {12-hour time, date}, {date, 12-hour
\* time}, {24-hour time, date}, {date, 24-hour time}, a 12-hour time being
\* one with an AM/PM marker, and the first of them that matches decides.
C15_ShapesAsWorded ==
    Extracted => Fields.timestamp = ByPriority(shapesWithMarker, Normalised)

\* C15: the four patterns are tried in their fixed order and the first
\* that matches anywhere in the normalised text decides, whatever the
\* position of its match; the result is its two groups joined by one
\* space and trimmed; the field is "Not found" exactly when none matches.
\* The second pattern takes a date followed by any time, the AM/PM marker
\* being optional, so it decides ahead of the third and the fourth never
\* decides.
C15_FirstPatternInOrder ==
    Extracted =>
        LET nt      == Normalised
            matches == MatchingShapes(patterns, nt)
        IN  /\ Fields.timestamp = ByPriority(patterns, nt)
            /\ (Fields.timestamp = NotFound) <=> (matches = {})
            /\ 4 \in matches => 2 \in matches
            /\ \A k \in MatchingShapes(shapesWithMarker, nt) : k \in matches

\* The first and the second pattern both match, the second earlier in
\* the text, and the timestamp is the match of the first.
C15_Witness ==
    /\ Extracted
    /\ Search(patterns[1], Normalised, 1).found
    /\ Search(patterns[2], Normalised, 1).found
    /\ Search(patterns[2], Normalised, 1).start < Search(patterns[1], Normalised, 1).start
    /\ Fields.timestamp = Matched(Normalised, Search(patterns[1], Normalised, 1))

\* C16: for the example text, plusCode starts with "9AB8+2X" and goes on
\* with the address suffix "Lahore, Punjab", latitude is "31.5204",
\* longitude is "74.3587" and timestamp is "14:30 08/11/2023".
C16_SampleTextFields ==
    (Extracted /\ extract.text = SampleText) =>
        /\ SubStr(Fields.plusCode, 1, 8) = << "9", "A", "B", "8", "+", "2", "X" >>
        /\ IndexOf(Fields.plusCode, 
              << "L", "a", "h", "o", "r", "e", ",", " ", "P", "u", "n", "j", "a", "b" >>, 1) = 9
        /\ Fields.latitude = << "3", "1", ".", "5", "2", "0", "4" >>
        /\ Fields.longitude = << "7", "4", ".", "3", "5", "8", "7" >>
        /\ Fields.timestamp = 
              << "1", "4", ":", "3", "0", " ", "0", "8", "/", "1", "1", "/", "2", "0", "2", "3" >>

\* The example text has been extracted.
C16_Witness == Extracted /\ extract.text = SampleText /\ Fields.plusCode # NotFound


\* ------------------------------------------------------------ csv.ts
\* The longest sequence of records handed to exportToCSV.
MaxRecords == 2

\* The keys of the objects of csvData, in the order they are written
\* (csv.ts:6-10).
Columns ==
    << << "L", "o", "c", "a", "t", "i", "o", "n", "/", "P", "l", "u", "s", " ", "C", "o", "d", "e" >>,
       << "L", "a", "t", "i", "t", "u", "d", "e" >>,
       << "L", "o", "n", "g", "i", "t", "u", "d", "e" >>,
       << "T", "i", "m", "e", "s", "t", "a", "m", "p" >>,
       << "P", "I", "C", "S" >> >>

\* The object of csv.ts:5-11 with Latitude and Longitude filled from each
\* other's field.
csvRowSwapped(item) ==
    << << Columns[1], item.plusCode >>, << Columns[2], item.longitude >>,
       << Columns[3], item.latitude >>, << Columns[4], item.timestamp >>,
       << Columns[5], item.imageName >> >>

\* csv.ts:5-11: the object built for a record, as its keys and values
\* in insertion order.
csvRow(item) ==
    << << Columns[1], item.plusCode >>, << Columns[2], item.latitude >>,
       << Columns[3], item.longitude >>, << Columns[4], item.timestamp >>,
       << Columns[5], item.imageName >> >>

csvData(data) == [ n \in 1..Len(data) |-> csvRow(data[n]) ]

\* Papa.unparse quotes a field that holds the delimiter, a quote, a line
\* break, or a leading or trailing space, doubling the quotes inside it.
NeedsQuotes(v) ==
    \/ \E n \in 1..Len(v) : v[n] \in { ",", "\"", "\n", "\r" }
    \/ v # <<>> /\ (v[1] = " " \/ v[Len(v)] = " ")

RECURSIVE DoubleQuotes(_)
DoubleQuotes(v) ==
    IF v = <<>> THEN <<>>
    ELSE (IF Head(v) = "\"" THEN << "\"", "\"" >> ELSE << Head(v) >>) \o DoubleQuotes(Tail(v))

QuoteField(v) == IF NeedsQuotes(v) THEN << "\"" >> \o DoubleQuotes(v) \o << "\"" >> ELSE v

\* Papa.unparse joins the fields of a line with "," and the lines with
\* "\r\n".
CsvLine(cells) == JoinTokens([ n \in 1..Len(cells) |-> QuoteField(cells[n]) ], << "," >>)

\* Papa.unparse of an array of objects: the keys of the first object as
\* the header line, then one line per object; the empty string for an
\* empty array.
unparse(objects) ==
    IF objects = <<>> THEN <<>>
    ELSE LET fields == [ n \in 1..Len(objects[1]) |-> objects[1][n][1] ]
             lines  == [ n \in 1..Len(objects) |->
                           CsvLine([ c \in 1..Len(fields) |-> objects[n][c][2] ]) ]
         IN  JoinTokens(<< CsvLine(fields) >> \o lines, << "\r", "\n" >>)

\* The records the batch can hand over: fields with and without a comma
\* or a quote, and fields that were not found.
RecordSet ==
    [ imageName    : { << "a", ".", "j", "p", "g" >>, << "b", "\"", "c", ".", "j", "p", "g" >> },
      plusCode     : { NotFound, << "A", "B", "1", "2", "+", "C", "D", " ", "R", "d", ",", " ", "X", "1" >> },
      latitude     : { NotFound, << "3", "1", ".", "5" >> },
      longitude    : { << "7", "4", ".", "3" >> },
      timestamp    : { NotFound, << "9", ":", "1", "5", " ", "P", "M", " ", "1", "/", "2", "/", "2", "4" >> },
      originalText : { << "r", "a", "w", ",", " ", "t", "e", "x", "t" >> } ]

DataSet == UNION { [1..n -> RecordSet] : n \in 0..MaxRecords }

\* exportToCSV is called (csv.ts:4).
ExportCalled(data) ==
    /\ csv.phase = "idle"
    /\ csv' = [phase |-> "called", data |-> data]
    /\ UNCHANGED << progVars, extract >>

\* csv.ts:5-23: the file is built and the link is clicked, whatever the
\* number of records.
ExportStep ==
    /\ csv.phase = "called"
    /\ csv' = [phase |-> "done", data |-> csv.data,
               file |-> unparse(csvData(csv.data)),
               type |-> "text/csv;charset=utf-8;",
               downloads |-> 1]
    /\ UNCHANGED << progVars, extract >>

CsvNext ==
    \/ \E data \in DataSet : ExportCalled(data)
    \/ ExportStep

CsvSpec == Init /\ [][CsvNext]_vars

Exported == csv.phase = "done"


\* --------------------------------------------------- export: claims
\* A CSV file as its reader takes it apart: lines end at "\r\n" outside
\* quotes, fields at ",", and a quoted field holds its text with every
\* doubled quote standing for one.
RECURSIVE ReadField(_, _, _, _)
ReadField(t, p, quoted, cell) ==
    IF p > Len(t) THEN [cell |-> cell, next |-> p, ends |-> "file"]
    ELSE IF quoted
    THEN IF t[p] # "\"" THEN ReadField(t, p + 1, TRUE, Append(cell, t[p]))
         ELSE IF p < Len(t) /\ t[p + 1] = "\""
         THEN ReadField(t, p + 2, TRUE, Append(cell, "\""))
         ELSE ReadField(t, p + 1, FALSE, cell)
    ELSE IF t[p] = "\"" /\ cell = <<>> THEN ReadField(t, p + 1, TRUE, cell)
    ELSE IF t[p] = "," THEN [cell |-> cell, next |-> p + 1, ends |-> "field"]
    ELSE IF t[p] = "\r" /\ p < Len(t) /\ t[p + 1] = "\n"
    THEN [cell |-> cell, next |-> p + 2, ends |-> "line"]
    ELSE ReadField(t, p + 1, FALSE, Append(cell, t[p]))

RECURSIVE ReadLine(_, _, _)
ReadLine(t, p, row) ==
    LET f == ReadField(t, p, FALSE, <<>>)
    IN  IF f.ends = "field" THEN ReadLine(t, f.next, Append(row, f.cell))
        ELSE [row |-> Append(row, f.cell), next |-> f.next, ends |-> f.ends]

RECURSIVE ReadCsv(_, _, _)
ReadCsv(t, p, rows) ==
    IF t = <<>> THEN <<>>
    ELSE LET l == ReadLine(t, p, <<>>)
         IN  IF l.ends = "line" THEN ReadCsv(t, l.next, Append(rows, l.row))
             ELSE Append(rows, l.row)

Table == ReadCsv(csv.file, 1, <<>>)

C17_RowsMirrorRecords ==
    Exported =>
        LET N == Len(csv.data)
        IN  /\ Len(Table) = IF N = 0 THEN 0 ELSE N + 1
            /\ N > 0 => Table[1] = Columns
            /\ \A n \in 1..N :
                  Table[n + 1] = << csv.data[n].plusCode, csv.data[n].latitude,
                                    csv.data[n].longitude, csv.data[n].timestamp,
                                    csv.data[n].imageName >>

\* Two different records were exported, the first with a plus code that
\* holds a comma, the second with a plus code that was not found.
C17_Witness ==
    /\ Exported
    /\ Len(csv.data) = 2
    /\ NeedsQuotes(csv.data[1].plusCode)
    /\ csv.data[2].plusCode = NotFound
    /\ NeedsQuotes(csv.data[2].imageName)
    /\ Len(Table) = 3

====
